---- MODULE Spec2Model ----
(***************************************************************************)
(* Verification model of the sport-betting BFF:                            *)
(*   - the sliding-window rate limiter  (app/main.py, _check_rate_limit)   *)
(*   - the upstream call gateway        (app/services/backend_service.py)  *)
(*       cache key derivation, cache eligibility, TTL cache, dispatch,     *)
(*       error mapping and the statistics counters.                        *)
(*                                                                         *)
(* Three specifications share the module:                                  *)
(*   SpecRL   the rate limiter under a non-decreasing clock                *)
(*   SpecKey  the pure cache-key function applied to bounded inputs        *)
(*   Spec     the gateway: concurrent dispatches, the clock, clear_cache   *)
(***************************************************************************)
EXTENDS Integers, Sequences, FiniteSets, TLC

VARIABLES
    now,               \* the clock reading (seconds): time.time(), utcnow(), TTLCache timer
    \* ---- rate limiter (app/main.py)
    max_requests,      \* settings.rate_limit_per_minute
    rate_limit_store,  \* _rate_limit_store: client_ip -> [requests |-> list of timestamps]
    rl_ret,            \* outcome of the latest _check_rate_limit call
    allowed_log,       \* history: client_ip -> timestamps of every call that returned True
    rl_calls,          \* history: number of _check_rate_limit calls made
    mw_ret,            \* what the latest rate_limiting_middleware pass did
    call_next_calls,   \* history: number of call_next(request) invocations
    handler_runs,      \* history: number of requests that reached their route handler
    \* ---- cache key function
    key_in,            \* a pair of inputs (method, endpoint, params, headers)
    key_out,           \* <<>> before the keys are computed, then the pair of keys
    \* ---- gateway (app/services/backend_service.py)
    enable_cache,      \* settings.enable_cache
    cache_ttl_seconds, \* settings.cache_ttl_seconds
    cache,             \* self.cache: key -> [value, expires]
    stats,             \* self.stats
    inflight,          \* dispatches suspended at "await client.request(...)"
    ret,               \* the latest step of a dispatch and what it gave its caller
                       \* (req: the request, when it was answered from the cache;
                       \*  a request that went to the network is in inflight)
    calls,             \* history: number of _make_request calls begun
    sent,              \* history: number of outbound calls issued to the upstream API
    recorded,          \* history: how many response times were measured, and their sum
    storedAt,          \* history: key -> time of the latest store under it (-1: never)
    scn,               \* history: tracks the "k identical dispatches on a fresh gateway" run
    \* ---- route handlers (app/api/bets.py) and the upstream API they talk to
    bet,               \* the upstream API's record of bet 7: [status, canBeCancelled]
    cx,                \* the cancel_bet requests begun so far, in order of arrival
    cb,                \* the create_bet requests begun so far, in order of arrival
    dash,              \* the get_betting_dashboard request being served, or the last one
    dashes,            \* history: number of get_betting_dashboard requests begun
    \* ---- enrichment helpers (pure functions of app/api/bets.py, app/api/events.py)
    enrich_in,         \* a helper and the record it is applied to
    enrich_out         \* <<>> before the helper ran, then what it returned or raised

rlVars  == <<max_requests, rate_limit_store, rl_ret, allowed_log, rl_calls,
             mw_ret, call_next_calls, handler_runs>>
keyVars == <<key_in, key_out>>
gwVars  == <<enable_cache, cache_ttl_seconds, cache, stats, inflight, ret, calls,
             sent, recorded, storedAt, scn>>
apiVars == <<bet, cx, cb, dash, dashes>>
enrVars == <<enrich_in, enrich_out>>
vars    == <<now, rlVars, keyVars, gwVars, apiVars, enrVars>>

(***************************************************************************)
(* Bounds of the model.                                                    *)
(***************************************************************************)
MaxRate    == 2      \* largest configured rate_limit_per_minute explored
MaxChecks  == 5      \* _check_rate_limit calls per behaviour
MaxTimeRL  == 120    \* last clock reading of the rate-limiter specification
MaxCalls   == 3      \* _make_request calls per behaviour
MaxPending == 2      \* dispatches suspended at the same time
MaxTime    == 450    \* last clock reading of the gateway specification

(***************************************************************************)
(* Optional values: None is <<>>, a present value v is <<v>>.              *)
(***************************************************************************)
None      == <<>>
Some(v)   == <<v>>
IsNone(o) == o = <<>>
Get(o)    == o[1]

\* ======================================================================
\* Rate limiter
\* ======================================================================

window_size == 60

Clients == {"10.0.0.1", "unknown"}

RLSteps == {20}

\* main.py:581  "if current_time - req_time < window_size"
InWindowInclusive(current_time, req_time) == current_time - req_time <= window_size
InWindow(current_time, req_time) == current_time - req_time < window_size

\* main.py:587  "if len(...) >= max_requests"
ExceedsLimitOffByOne(n, maxreq) == n > maxreq

ExceedsLimit(n, maxreq) == n >= maxreq

\* main.py:578-584: prune the client's list, or create it empty
PruneOrCreateKeepingStale(store, client_ip, current_time) ==
    [c \in (DOMAIN store) \cup {client_ip} |->
        IF c = client_ip /\ client_ip \notin DOMAIN store
        THEN [requests |-> <<>>]
        ELSE store[c]]
PruneOrCreate(store, client_ip, current_time) ==
    [c \in (DOMAIN store) \cup {client_ip} |->
        IF c = client_ip
        THEN IF client_ip \in DOMAIN store
             THEN [requests |-> SelectSeq(store[client_ip].requests,
                                          LAMBDA t : InWindow(current_time, t))]
             ELSE [requests |-> <<>>]
        ELSE store[c]]

\* main.py:560-592: the whole call; returns the verdict and the new store
_check_rate_limit_RecordingDenied(store, client_ip, current_time, maxreq) ==
    LET pruned == PruneOrCreate(store, client_ip, current_time)
    IN  [allow |-> ~ExceedsLimit(Len(pruned[client_ip].requests), maxreq),
         store |-> [pruned EXCEPT ![client_ip].requests = Append(@, current_time)]]
_check_rate_limit_SharedBucket(store, client_ip, current_time, maxreq) ==
    LET pruned == PruneOrCreate(store, "unknown", current_time)
    IN  IF ExceedsLimit(Len(pruned["unknown"].requests), maxreq)
        THEN [allow |-> FALSE, store |-> pruned]
        ELSE [allow |-> TRUE,
              store |-> [pruned EXCEPT !["unknown"].requests = Append(@, current_time)]]
_check_rate_limit(store, client_ip, current_time, maxreq) ==
    LET pruned == PruneOrCreate(store, client_ip, current_time)
    IN  IF ExceedsLimit(Len(pruned[client_ip].requests), maxreq)
        THEN [allow |-> FALSE, store |-> pruned]
        ELSE [allow |-> TRUE,
              store |-> [pruned EXCEPT ![client_ip].requests = Append(@, current_time)]]

\* main.py:251-261: what the middleware does with the limiter's verdict: it
\* awaits call_next(request), or raises HTTPException(429) without calling it
rate_limiting_middleware_CheckingAfterwards(allowed) ==
    [call_next |-> TRUE, raised |-> IF allowed THEN 0 ELSE 429]
rate_limiting_middleware(allowed) ==
    IF allowed
    THEN [call_next |-> TRUE, raised |-> 0]
    ELSE [call_next |-> FALSE, raised |-> 429]

InitRLVars ==
    /\ rate_limit_store = <<>>
    /\ rl_ret = [client |-> "", allow |-> FALSE, time |-> -1]
    /\ allowed_log = [c \in Clients |-> <<>>]
    /\ rl_calls = 0
    /\ mw_ret = [call_next |-> FALSE, raised |-> 0]
    /\ call_next_calls = 0
    /\ handler_runs = 0

\* One inbound request entering rate_limiting_middleware (main.py:236-261): the
\* limiter is called (its coroutine holds no await, so the call is atomic) and
\* the middleware either hands the request on with call_next, where it waits
\* for its route handler, or raises.
CheckRateLimit(c) ==
    /\ rl_calls < MaxChecks
    /\ LET r == _check_rate_limit(rate_limit_store, c, now, max_requests)
           m == rate_limiting_middleware(r.allow)
       IN  /\ rate_limit_store' = r.store
           /\ rl_ret' = [client |-> c, allow |-> r.allow, time |-> now]
           /\ allowed_log' = IF r.allow
                             THEN [allowed_log EXCEPT ![c] = Append(@, now)]
                             ELSE allowed_log
           /\ mw_ret' = m
           /\ call_next_calls' = IF m.call_next THEN call_next_calls + 1
                                 ELSE call_next_calls
    /\ rl_calls' = rl_calls + 1
    /\ UNCHANGED <<now, max_requests, handler_runs, keyVars, gwVars, apiVars, enrVars>>

\* main.py:252: a request handed on by call_next reaches its route handler
RouteHandler ==
    /\ handler_runs < call_next_calls
    /\ handler_runs' = handler_runs + 1
    /\ UNCHANGED <<now, max_requests, rate_limit_store, rl_ret, allowed_log, rl_calls,
                   mw_ret, call_next_calls, keyVars, gwVars, apiVars, enrVars>>

TickRL(d) ==
    /\ now + d <= MaxTimeRL
    /\ now' = now + d
    /\ UNCHANGED <<rlVars, keyVars, gwVars, apiVars, enrVars>>

\* ======================================================================
\* Gateway: cache key and cache eligibility (pure functions)
\* ======================================================================

(***************************************************************************)
(* A Python dict is the set of its <<key, value>> items (a dict holds one  *)
(* item per key and equality ignores insertion order).  An Optional[Dict]  *)
(* is None or Some(dict).  An endpoint string is the sequence of its       *)
(* fragments, so that "pattern in endpoint" is a contiguous-subsequence    *)
(* test.                                                                   *)
(***************************************************************************)
DictGet(d, k) ==
    IF \E item \in d : item[1] = k
    THEN Some((CHOOSE item \in d : item[1] = k)[2])
    ELSE None

\* Python truthiness of an Optional[Dict]: None and {} are falsy
Truthy(optDict) == ~IsNone(optDict) /\ Get(optDict) # {}

\* "params or {}"
OrEmptyDict(optDict) == IF Truthy(optDict) THEN Get(optDict) ELSE {}

\* json.dumps of a str / of None: a quoted string never equals null
JsonStr(s) == <<"str", s>>
JsonNull   == <<"null">>
JsonOpt(o) == IF IsNone(o) THEN JsonNull ELSE JsonStr(Get(o))

\* backend_service.py:61  headers.get("Authorization") if headers else None
AuthHeaderPresenceOnly(headers) ==
    IF Truthy(headers) /\ ~IsNone(DictGet(Get(headers), "Authorization"))
    THEN Some("present") ELSE None

AuthHeader(headers) ==
    IF Truthy(headers) THEN DictGet(Get(headers), "Authorization") ELSE None

\* backend_service.py:57-62  key_data
KeyData(method, endpoint, params, headers) ==
    [method      |-> method,
     endpoint    |-> endpoint,
     params      |-> OrEmptyDict(params),
     auth_header |-> AuthHeader(headers)]

\* backend_service.py:64  json.dumps(key_data, sort_keys=True): the members in
\* key order, each value in its JSON form
JsonDumpsSorted(kd) ==
    << <<"auth_header", JsonOpt(kd.auth_header)>>,
       <<"endpoint",    JsonStr(kd.endpoint)>>,
       <<"method",      JsonStr(kd.method)>>,
       <<"params",      kd.params>> >>

\* backend_service.py:65  hashlib.md5(...).hexdigest().  The digest is taken to be
\* collision-free on the inputs explored: it is the tagged pre-image.
Md5Hex(key_string) == <<"md5", key_string>>

\* backend_service.py:51-65
_generate_cache_key(method, endpoint, params, headers) ==
    Md5Hex(JsonDumpsSorted(KeyData(method, endpoint, params, headers)))

\* Python "pattern in endpoint"
IsInfix(pattern, s) ==
    \E i \in 0..(Len(s) - Len(pattern)) :
        \A j \in 1..Len(pattern) : s[i + j] = pattern[j]

\* str.upper() on the method names explored
Upper(method) == IF method = "get" THEN "GET" ELSE method

\* backend_service.py:76-80
no_cache_patterns ==
    << <<"/api", "/bets", "/my-bets">>,
       <<"/api", "/auth", "/profile">>,
       <<"/health">> >>

\* backend_service.py:67-82
_should_cache_request_AnyMethod(method, endpoint) ==
    ~\E p \in 1..Len(no_cache_patterns) : IsInfix(no_cache_patterns[p], endpoint)

_should_cache_request(method, endpoint) ==
    IF Upper(method) # "GET"
    THEN FALSE
    ELSE ~\E p \in 1..Len(no_cache_patterns) : IsInfix(no_cache_patterns[p], endpoint)

\* ---- inputs of the cache-key specification
KeyMethods   == {"GET", "get", "POST"}
KeyEndpoints == { <<"/api", "/events">>, <<"/api", "/events", "/1">>,
                  <<"/api", "/bets", "/my-bets">> }
KeyParams    == { None, Some({}), Some({<<"page", "1">>}),
                  Some({<<"page", "2">>, <<"status", "Active">>}) }
KeyHeaders   == { None, Some({}),
                  Some({<<"Authorization", "Bearer A">>}),
                  Some({<<"Authorization", "Bearer B">>}),
                  Some({<<"Authorization", "">>}),
                  Some({<<"X-Trace", "t1">>}),
                  Some({<<"Authorization", "Bearer A">>, <<"X-Trace", "t1">>}) }
KeyInputs ==
    [method : KeyMethods, endpoint : KeyEndpoints, params : KeyParams, headers : KeyHeaders]

KeyOf(in) == _generate_cache_key(in.method, in.endpoint, in.params, in.headers)

InitKeyVars ==
    /\ key_in = <<[method |-> "GET", endpoint |-> <<"/api", "/events">>,
                   params |-> None, headers |-> None],
                  [method |-> "GET", endpoint |-> <<"/api", "/events">>,
                   params |-> None, headers |-> None]>>
    /\ key_out = <<>>

GenerateKeys ==
    /\ key_out = <<>>
    /\ key_out' = <<KeyOf(key_in[1]), KeyOf(key_in[2])>>
    /\ UNCHANGED <<now, key_in, rlVars, gwVars, apiVars, enrVars>>

\* ======================================================================
\* Gateway: TTL cache, statistics, dispatch
\* ======================================================================

\* ---- self.cache = TTLCache(maxsize=1000, ttl=settings.cache_ttl_seconds)
\* An entry is [value, expires]; expires = time of the store + ttl.  An entry is
\* visible while timer() < expires (cachetools 5 and later); reads never move it.
maxsize == 1000

\* "cache_key in self.cache" / "self.cache[cache_key]"
CacheContainsIgnoringExpiry(c, key, time) == key \in DOMAIN c

CacheContains(c, key, time) == key \in DOMAIN c /\ time < c[key].expires

\* TTLCache.expire(time): drop every entry that is no longer visible
Expire(c, time) ==
    LET live == {k \in DOMAIN c : time < c[k].expires}
    IN  [k \in live |-> c[k]]

\* TTLCache.popitem(): drop the entry that expires first
PopItem(c) ==
    LET first == CHOOSE k \in DOMAIN c : \A k2 \in DOMAIN c : c[k].expires <= c[k2].expires
    IN  [k \in (DOMAIN c) \ {first} |-> c[k]]

RECURSIVE MakeRoom(_)
MakeRoom(c) == IF Cardinality(DOMAIN c) >= maxsize THEN MakeRoom(PopItem(c)) ELSE c

\* "self.cache[cache_key] = response_data": expire, make room, insert with a
\* fresh lifetime
CacheStore(c, key, value, time, ttl) ==
    LET swept  == Expire(c, time)
        roomy  == IF key \in DOMAIN swept THEN swept ELSE MakeRoom(swept)
    IN  [k \in (DOMAIN roomy) \cup {key} |->
            IF k = key THEN [value |-> value, expires |-> time + ttl] ELSE roomy[k]]

\* ---- exact rationals <<numerator, denominator>> for average_response_time
RECURSIVE GCD(_, _)
GCD(a, b) == IF b = 0 THEN a ELSE GCD(b, a % b)

Rat(n, d) == LET g == GCD(n, d) IN IF g = 0 THEN <<0, 1>> ELSE <<n \div g, d \div g>>

\* backend_service.py:44-49
InitStats ==
    [requests_made |-> 0, cache_hits |-> 0, errors |-> 0,
     average_response_time |-> <<0, 1>>]

\* backend_service.py:202-210
_update_average_response_time_Unweighted(s, response_time) ==
    LET current_avg    == s.average_response_time
        total_requests == s.requests_made
    IN  [s EXCEPT !.average_response_time =
            Rat(current_avg[1] * total_requests + response_time * current_avg[2],
                current_avg[2] * total_requests)]
_update_average_response_time(s, response_time) ==
    LET current_avg    == s.average_response_time
        total_requests == s.requests_made
    IN  [s EXCEPT !.average_response_time =
            Rat(current_avg[1] * (total_requests - 1) + response_time * current_avg[2],
                current_avg[2] * total_requests)]

\* backend_service.py:107
CountCacheHitAlsoAsRequest(s) ==
    [s EXCEPT !.cache_hits = @ + 1, !.requests_made = @ + 1]
CountCacheHitTwice(s) == [s EXCEPT !.cache_hits = @ + 2]

CountCacheHit(s) == [s EXCEPT !.cache_hits = @ + 1]

\* backend_service.py:119
CountRequestSkipped(s) == s

CountRequestMade(s) == [s EXCEPT !.requests_made = @ + 1]

\* backend_service.py:149, 155, 161
CountErrorTwice(s) == [s EXCEPT !.errors = @ + 2]
CountError(s) == [s EXCEPT !.errors = @ + 1]

\* backend_service.py:293-304  get_stats(): cache_hit_rate as an exact rational
\* (round(., 2) is monotone and fixes 0 and 100), cache_size = len(self.cache)
get_stats ==
    [requests_made  |-> stats.requests_made,
     cache_hits     |-> stats.cache_hits,
     errors         |-> stats.errors,
     average_response_time |-> stats.average_response_time,
     cache_hit_rate |-> Rat(stats.cache_hits * 100,
                            IF stats.requests_made > 1 THEN stats.requests_made ELSE 1),
     cache_size     |-> Cardinality(DOMAIN Expire(cache, now))]

\* ---- what the upstream API can answer
Statuses == {200, 201, 204, 400, 401, 404}
Bodies   == {"b1", "b2"}
\* response.content: empty (which response.json() cannot decode) or a JSON document
Contents == {<<"empty">>} \cup {<<"json", b>> : b \in Bodies}
Outcomes ==
    {[kind |-> "response", status |-> st, content |-> ct] : st \in Statuses, ct \in Contents}
    \cup {[kind |-> k, status |-> 0, content |-> <<"empty">>] :
            k \in {"timeout", "connect_error", "other_error"}}

\* response.json(): the document, or a decoding error
Decodable(content) == content[1] = "json"
Json(content) == content[2]

\* backend_service.py:166-200.  The result is <<"ok">> (return), <<"raise", status,
\* detail>> (HTTPException) or <<"error">> (response.json() failed in the 400/409
\* branches).
_handle_response(status, content) ==
    IF status = 200 \/ status = 201 THEN <<"ok">>
    ELSE IF status = 400
         THEN IF content[1] = "empty" THEN <<"raise", 400, "Bad Request">>
              ELSE IF Decodable(content) THEN <<"raise", 400, Json(content)>>
              ELSE <<"error">>
    ELSE IF status = 401 THEN <<"raise", 401, "Unauthorized">>
    ELSE IF status = 404 THEN <<"raise", 404, "Resource not found">>
    ELSE IF status = 409
         THEN IF content[1] = "empty" THEN <<"raise", 409, "Conflict">>
              ELSE IF Decodable(content) THEN <<"raise", 409, Json(content)>>
              ELSE <<"error">>
    ELSE <<"raise", status, "Backend error">>

\* backend_service.py:142  "if cache_key and response.status_code == 200"
ShouldStoreNever(cache_key, status) == FALSE

ShouldStore(cache_key, status) == ~IsNone(cache_key) /\ status = 200

\* backend_service.py:101
Eligible(req) ==
    req.use_cache /\ enable_cache /\ _should_cache_request(req.method, req.endpoint)

\* ---- inputs of the gateway specification
\*   get_events()                      backend_service.py:243
\*   the same call with a credential
\*   the same call with the hint off
\*   get_user_bets(token)              backend_service.py:275, with the hint on
\*   a POST with the hint on
BearerA == Some({<<"Authorization", "Bearer A">>})
Req(m, e, h, u) ==
    [method |-> m, endpoint |-> e, params |-> None, headers |-> h, use_cache |-> u]
Requests ==
    { Req("GET",  <<"/api", "/events">>, None, TRUE),
      Req("GET",  <<"/api", "/events">>, BearerA, TRUE),
      Req("GET",  <<"/api", "/events">>, None, FALSE),
      Req("GET",  <<"/api", "/bets", "/my-bets">>, BearerA, TRUE),
      Req("POST", <<"/api", "/events">>, None, TRUE) }
GwKeys == { _generate_cache_key(r.method, r.endpoint, r.params, r.headers) : r \in Requests }
GwSteps == {150}

NoReq == [method |-> "", endpoint |-> <<>>, params |-> None, headers |-> None,
          use_cache |-> FALSE]

InitGwVars ==
    /\ cache = <<>>
    /\ stats = InitStats
    /\ inflight = {}
    /\ ret = [phase |-> "init", req |-> NoReq, status |-> 0, value |-> "", upstream |-> 0,
              cause |-> ""]
    /\ calls = 0
    /\ sent = 0
    /\ recorded = [n |-> 0, sum |-> 0]
    /\ storedAt = [k \in GwKeys |-> -1]
    /\ scn = [ok |-> TRUE, first |-> NoReq, body |-> "", T |-> -1]

CacheKeyOf(req) ==
    IF Eligible(req)
    THEN Some(_generate_cache_key(req.method, req.endpoint, req.params, req.headers))
    ELSE None

\* History of the run "k identical eligible dispatches on a fresh gateway, the
\* first answered 200, the others issued before its entry's TTL elapses": scn.ok
\* stays TRUE while the inputs and the upstream's answers follow that run.
ScnOff == [ok |-> FALSE, first |-> NoReq, body |-> "", T |-> -1]
ScnAtStart(req) ==
    IF calls = 0
    THEN IF enable_cache /\ Eligible(req) THEN [scn EXCEPT !.first = req] ELSE ScnOff
    ELSE IF scn.ok /\ req = scn.first /\ scn.T >= 0 /\ now < scn.T + cache_ttl_seconds
         THEN scn ELSE ScnOff
ScnAtComplete(d, o) ==
    IF d.id = 1
    THEN IF scn.ok /\ o.kind = "response" /\ o.status = 200 /\ Decodable(o.content)
         THEN [scn EXCEPT !.body = Json(o.content), !.T = now]
         ELSE ScnOff
    ELSE scn

\* backend_service.py:96-128: from the call to the suspension at
\* "await client.request(...)", or to the return of a cached value.  No await is
\* taken in between, so the step is atomic.
DispatchStart(req) ==
    /\ calls < MaxCalls
    /\ Cardinality(inflight) < MaxPending
    /\ calls' = calls + 1
    /\ scn' = ScnAtStart(req)
    /\ LET cache_key == CacheKeyOf(req)
       IN  IF ~IsNone(cache_key) /\ CacheContains(cache, Get(cache_key), now)
           THEN \* backend_service.py:106-109: served from the cache
                /\ stats' = CountCacheHit(stats)
                /\ ret' = [phase |-> "hit", req |-> req, status |-> 0,
                           value |-> cache[Get(cache_key)].value, upstream |-> 0,
                           cause |-> ""]
                /\ UNCHANGED <<cache, inflight, sent>>
           ELSE \* backend_service.py:111-128: the outbound call is issued
                /\ stats' = CountRequestMade(stats)
                /\ sent' = sent + 1
                /\ inflight' = inflight \cup
                       {[id |-> calls + 1, req |-> req, cache_key |-> cache_key,
                         start_time |-> now]}
                /\ ret' = [phase |-> "sent", req |-> NoReq, status |-> 0,
                           value |-> "", upstream |-> 0, cause |-> ""]
                /\ UNCHANGED cache
    /\ UNCHANGED <<now, enable_cache, cache_ttl_seconds, recorded, storedAt, rlVars,
                   keyVars, apiVars, enrVars>>

\* What a finished dispatch gives its caller: <<"return", body>> or
\* <<"raise", status, detail>>  (backend_service.py:130-164).  An HTTPException
\* raised by _handle_response inside the try block is an Exception, so the last
\* handler (line 160) catches it and raises 500 in its place.
Raised500 == <<"raise", 500, "Internal server error">>
\* backend_service.py:148-152: except httpx.TimeoutException
RaisedOnTimeoutAs500 == <<"raise", 500, "Internal server error">>
RaisedOnTimeout == <<"raise", 504, "Backend service timeout">>
\* backend_service.py:154-158: except httpx.ConnectError
RaisedOnConnectErrorSwallowed == <<"return", "">>
RaisedOnConnectError == <<"raise", 503, "Backend service unavailable">>
ResultOf(o) ==
    IF o.kind = "timeout" THEN RaisedOnTimeout
    ELSE IF o.kind = "connect_error" THEN RaisedOnConnectError
    ELSE IF o.kind = "other_error" THEN Raised500
    ELSE IF _handle_response(o.status, o.content)[1] # "ok" THEN Raised500
    ELSE IF ~Decodable(o.content) THEN Raised500
    ELSE <<"return", Json(o.content)>>

\* backend_service.py:135-143: the store statement comes after _handle_response
\* and response.json(), so it is reached only if neither raised
StoreReachedAlways(res) == TRUE
StoreReached(res) == res[1] = "return"

\* backend_service.py:130-164: the upstream's answer (or the failure of the
\* call) arrives and the dispatch runs to its end.
DispatchComplete(d, o) ==
    /\ d \in inflight
    /\ inflight' = inflight \ {d}
    /\ scn' = ScnAtComplete(d, o)
    /\ LET res    == ResultOf(o)
           timed  == IF o.kind = "response"
                     THEN _update_average_response_time(stats, now - d.start_time)
                     ELSE stats
           stores == StoreReached(res) /\ ShouldStore(d.cache_key, o.status)
       IN  /\ stats' = IF res[1] = "raise" THEN CountError(timed) ELSE timed
           /\ cache' = IF stores
                       THEN CacheStore(cache, Get(d.cache_key), res[2], now,
                                       cache_ttl_seconds)
                       ELSE cache
           /\ recorded' = IF o.kind = "response"
                          THEN [n   |-> recorded.n + 1,
                                sum |-> recorded.sum + (now - d.start_time)]
                          ELSE recorded
           /\ storedAt' = IF stores
                          THEN [storedAt EXCEPT ![Get(d.cache_key)] = now]
                          ELSE storedAt
           /\ ret' = [phase    |-> res[1],
                      req      |-> NoReq,
                      status   |-> IF res[1] = "raise" THEN res[2] ELSE 0,
                      value    |-> IF res[1] = "return" THEN res[2] ELSE "",
                      upstream |-> o.status,
                      cause    |-> o.kind]
    /\ UNCHANGED <<now, enable_cache, cache_ttl_seconds, calls, sent, rlVars, keyVars, apiVars, enrVars>>

\* backend_service.py:306-309
ClearCacheResettingStats ==
    /\ cache' = <<>>
    /\ stats' = InitStats
    /\ scn' = ScnOff
    /\ UNCHANGED <<now, enable_cache, cache_ttl_seconds, inflight, ret, calls,
                   sent, recorded, storedAt, rlVars, keyVars, apiVars, enrVars>>
ClearCache ==
    /\ cache' = <<>>
    /\ scn' = ScnOff
    /\ UNCHANGED <<now, enable_cache, cache_ttl_seconds, stats, inflight, ret, calls,
                   sent, recorded, storedAt, rlVars, keyVars, apiVars, enrVars>>

Tick(d) ==
    /\ now + d <= MaxTime
    /\ now' = now + d
    /\ UNCHANGED <<rlVars, keyVars, gwVars, apiVars, enrVars>>

\* ======================================================================
\* Route handlers of app/api/bets.py on top of the gateway
\* ======================================================================

(***************************************************************************)
(* A route handler awaits _make_request; its dispatch reads and writes the *)
(* gateway's cache and stats as in DispatchStart / DispatchComplete.  The  *)
(* handler's own record keeps the position of its coroutine, so the        *)
(* gateway's inflight set and history variables are left alone here.       *)
(***************************************************************************)

\* backend_service.py:99-109: the value a dispatch finds in the cache, if any
GwLookup(req) ==
    LET cache_key == CacheKeyOf(req)
    IN  IF ~IsNone(cache_key) /\ CacheContains(cache, Get(cache_key), now)
        THEN Some(cache[Get(cache_key)].value)
        ELSE None

\* backend_service.py:130-164: stats and cache after the upstream answered o to
\* a dispatch of req that began at start_time
GwStatsAfter(s, o, start_time) ==
    LET timed == IF o.kind = "response"
                 THEN _update_average_response_time(s, now - start_time)
                 ELSE s
    IN  IF ResultOf(o)[1] = "raise" THEN CountError(timed) ELSE timed
GwCacheAfter(c, req, o) ==
    LET res == ResultOf(o)
        cache_key == CacheKeyOf(req)
    IN  IF StoreReached(res) /\ ShouldStore(cache_key, o.status)
        THEN CacheStore(c, Get(cache_key), res[2], now, cache_ttl_seconds)
        ELSE c

\* ---- get_betting_dashboard (bets.py:318-390) for the user with token A
MaxDash == 2
DashSteps == {300}

\* bets.py:338-343: the four calls, in the order asyncio.gather receives them
Sources == <<"profile", "recent_bets", "bet_statistics", "available_events">>
SourceSet == {Sources[k] : k \in DOMAIN Sources}

\* backend_service.py:233, 275, 280, 243: the dispatch behind each call
SourceReq(src) ==
    IF src = "profile" THEN Req("GET", <<"/api", "/auth", "/profile">>, BearerA, FALSE)
    ELSE IF src = "recent_bets"
         THEN [Req("GET", <<"/api", "/bets", "/my-bets">>, BearerA, FALSE)
                  EXCEPT !.params = Some({<<"limit", 5>>})]
    ELSE IF src = "bet_statistics"
         THEN Req("GET", <<"/api", "/bets", "/my-stats">>, BearerA, FALSE)
    ELSE Req("GET", <<"/api", "/events">>, None, TRUE)

\* The upstream API answers a call with that call's data, rejects the token,
\* or is not reached in time.  The data of a source is tagged with its name.
SourceOutcomes(src) ==
    {[kind |-> "response", status |-> 200, content |-> <<"json", <<"data", src>>>>],
     [kind |-> "response", status |-> 401, content |-> <<"empty">>],
     [kind |-> "timeout", status |-> 0, content |-> <<"empty">>]}

\* bets.py:347-350: asyncio.gather(..., return_exceptions=True) gives the
\* results in the order of the calls, whatever the order of their arrival
GatherResultsByArrival(results, order) == [k \in DOMAIN Sources |-> results[order[k]]]
GatherResults(results, order) == [k \in DOMAIN Sources |-> results[Sources[k]]]

\* bets.py:360-363: a result that is an exception is replaced by a default
OrDefaultKeepingError(result, default) ==
    IF result.res[1] = "raise" THEN <<"exception", result.res[2]>> ELSE result.res[2]
OrDefault(result, default) ==
    IF result.res[1] = "raise" THEN default ELSE result.res[2]

\* bets.py:734-758 applied to the statistics of the stats call
TransformedStatistics(stats_data) == <<"transformed", stats_data>>

\* bets.py:800-825: the four slices of the dashboard
_build_dashboard_data(profile_data, recent_bets_data, stats_data, events_data) ==
    [user_profile     |-> IF profile_data = "None" THEN "{}" ELSE profile_data,
     recent_bets      |-> recent_bets_data,
     statistics       |-> IF stats_data = "None" THEN "{}"
                          ELSE TransformedStatistics(stats_data),
     available_events |-> events_data]

\* bets.py:353-390: the response composed from the gathered results.  The
\* HTTPException(401) of line 358 is raised inside the try block, so the
\* handler of line 385 catches it and raises 500 in its place.
NoData == [user_profile |-> "", recent_bets |-> "", statistics |-> "",
           available_events |-> ""]
ComposeDashboard(gathered) ==
    IF \E k \in DOMAIN gathered :
           gathered[k].res[1] = "raise" /\ gathered[k].res[2] = 401
    THEN [status |-> 500, data |-> NoData]
    ELSE [status |-> 200,
          data   |-> _build_dashboard_data(OrDefault(gathered[1], "None"),
                                           OrDefault(gathered[2], "[]"),
                                           OrDefault(gathered[3], "None"),
                                           OrDefault(gathered[4], "[]"))]

NoResult == [res |-> <<"pending">>, upstream |-> 0, kind |-> ""]
NoDash ==
    [pc |-> "idle", results |-> [src \in SourceSet |-> NoResult], order |-> <<>>,
     status |-> 0, data |-> NoData, start_time |-> 0]

\* bets.py:331-350: the four coroutines run up to their first suspension: the
\* events call may be answered from the cache, the other three go out
DashStart ==
    /\ dash.pc # "gather"
    /\ dashes < MaxDash
    /\ dashes' = dashes + 1
    /\ LET found == GwLookup(SourceReq("available_events"))
           three == CountRequestMade(CountRequestMade(CountRequestMade(stats)))
       IN  IF ~IsNone(found)
           THEN /\ stats' = CountCacheHit(three)
                /\ dash' = [NoDash EXCEPT
                               !.pc = "gather", !.start_time = now,
                               !.order = <<"available_events">>,
                               !.results["available_events"] =
                                   [res |-> <<"return", Get(found)>>, upstream |-> 0,
                                    kind |-> "cache"]]
           ELSE /\ stats' = CountRequestMade(three)
                /\ dash' = [NoDash EXCEPT !.pc = "gather", !.start_time = now]
    /\ UNCHANGED <<now, bet, cx, cb, cache, enable_cache, cache_ttl_seconds, inflight,
                   ret, calls, sent, recorded, storedAt, scn, rlVars, keyVars, enrVars>>

\* the upstream API answers one of the calls; with the last answer gather
\* returns and the response is composed (bets.py:347-383)
SourceAnswer(src, o) ==
    /\ dash.pc = "gather"
    /\ dash.results[src] = NoResult
    /\ cache' = GwCacheAfter(cache, SourceReq(src), o)
    /\ stats' = GwStatsAfter(stats, o, dash.start_time)
    /\ LET results == [dash.results EXCEPT
                          ![src] = [res |-> ResultOf(o), upstream |-> o.status,
                                    kind |-> o.kind]]
           order   == Append(dash.order, src)
           got     == [dash EXCEPT !.results = results, !.order = order]
       IN  IF Len(order) < Len(Sources)
           THEN dash' = got
           ELSE LET response == ComposeDashboard(GatherResults(results, order))
                IN  dash' = [got EXCEPT !.pc = "done", !.status = response.status,
                                        !.data = response.data]
    /\ UNCHANGED <<now, bet, cx, cb, dashes, enable_cache, cache_ttl_seconds, inflight,
                   ret, calls, sent, recorded, storedAt, scn, rlVars, keyVars, enrVars>>

\* ---- cancel_bet (bets.py:393-453) for bet 7 of the user with token A
MaxCancels == 3

\* bets.py:902-904 and 424-426: the two dispatches of one cancel_bet request
VerifyReq == Req("GET", <<"/api", "/bets", "/7">>, BearerA, TRUE)
DeleteReq == Req("DELETE", <<"/api", "/bets", "/7">>, BearerA, TRUE)

\* The upstream API answers GET /api/bets/7 with the bet as it is now, or does
\* not know the bet or the token, or cannot be reached in time.
Failures ==
    {[kind |-> k, status |-> 0, content |-> <<"empty">>] : k \in {"timeout", "connect_error"}}
VerifyOutcomes ==
    {[kind |-> "response", status |-> 200, content |-> <<"json", bet>>],
     [kind |-> "response", status |-> 404, content |-> <<"empty">>]} \cup Failures
\* The upstream API cancels an active, cancellable bet on DELETE and refuses
\* any other; a call that fails did not reach it.
Cancellable(b) == b.status = "Active" /\ b.canBeCancelled
Cancelled == [status |-> "Cancelled", canBeCancelled |-> FALSE]
DeleteOutcomes ==
    {IF Cancellable(bet)
     THEN [kind |-> "response", status |-> 200, content |-> <<"json", Cancelled>>]
     ELSE [kind |-> "response", status |-> 400, content |-> <<"empty">>]} \cup Failures
BetAfterDelete(o) == IF o.kind = "response" /\ o.status = 200 THEN Cancelled ELSE bet

\* bets.py:893-925: the verdict on what the verification dispatch gave
_verify_bet_cancellation_IgnoringFlag(res) ==
    IF res[1] # "return" THEN FALSE
    ELSE res[2].status = "Active"
_verify_bet_cancellation(res) ==
    IF res[1] # "return" THEN FALSE                  \* except Exception, line 921
    ELSE IF res[2].status # "Active" THEN FALSE      \* line 907
    ELSE IF ~res[2].canBeCancelled THEN FALSE        \* line 913
    ELSE TRUE

\* bets.py:410-426: cancel_bet after the verdict: 400, or the DELETE goes out
\* (its dispatch is not eligible for the cache and counts one request made)
AfterVerdict(r, res, from_cache, s) ==
    LET allowed == _verify_bet_cancellation(res)
        seen    == IF res[1] = "return" THEN Some(res[2]) ELSE None
        base    == [r EXCEPT !.seen = seen, !.verified = TRUE, !.cached = from_cache,
                             !.stale = allowed /\ bet.status = "Cancelled"]
    IN  IF allowed
        THEN [rec   |-> [base EXCEPT !.pc = "delete", !.deleted = TRUE,
                                     !.start_time = now],
              stats |-> CountRequestMade(s)]
        ELSE [rec   |-> [base EXCEPT !.pc = "done", !.status = 400],
              stats |-> s]

NewCancel ==
    [pc |-> "verify", seen |-> None, verified |-> FALSE, cached |-> FALSE,
     stale |-> FALSE, deleted |-> FALSE, status |-> 0, start_time |-> now]

InitApiVars ==
    /\ bet = [status |-> "Active", canBeCancelled |-> TRUE]
    /\ cx = <<>>
    /\ cb = <<>>
    /\ dash = NoDash
    /\ dashes = 0

\* bets.py:393-426 up to the first suspension: the verification dispatch is
\* answered from the cache, or goes out
CancelStart ==
    /\ Len(cx) < MaxCancels
    /\ LET found == GwLookup(VerifyReq)
       IN  IF ~IsNone(found)
           THEN LET a == AfterVerdict(NewCancel, <<"return", Get(found)>>, TRUE,
                                      CountCacheHit(stats))
                IN  /\ cx' = Append(cx, a.rec)
                    /\ stats' = a.stats
           ELSE /\ cx' = Append(cx, NewCancel)
                /\ stats' = CountRequestMade(stats)
    /\ UNCHANGED <<now, bet, cb, dash, dashes, cache, enable_cache, cache_ttl_seconds, inflight, ret,
                   calls, sent, recorded, storedAt, scn, rlVars, keyVars, enrVars>>

\* the upstream API answers the verification GET (bets.py:902-925, 410-426)
VerifyAnswer(i, o) ==
    /\ i \in DOMAIN cx /\ cx[i].pc = "verify"
    /\ o \in VerifyOutcomes
    /\ cache' = GwCacheAfter(cache, VerifyReq, o)
    /\ LET a == AfterVerdict(cx[i], ResultOf(o), FALSE,
                             GwStatsAfter(stats, o, cx[i].start_time))
       IN  /\ cx' = [cx EXCEPT ![i] = a.rec]
           /\ stats' = a.stats
    /\ UNCHANGED <<now, bet, cb, dash, dashes, enable_cache, cache_ttl_seconds, inflight, ret, calls,
                   sent, recorded, storedAt, scn, rlVars, keyVars, enrVars>>

\* the upstream API answers the DELETE (bets.py:424-453)
DeleteAnswer(i, o) ==
    /\ i \in DOMAIN cx /\ cx[i].pc = "delete"
    /\ o \in DeleteOutcomes
    /\ bet' = BetAfterDelete(o)
    /\ cache' = GwCacheAfter(cache, DeleteReq, o)
    /\ stats' = GwStatsAfter(stats, o, cx[i].start_time)
    /\ LET res == ResultOf(o)
       IN  cx' = [cx EXCEPT ![i].pc = "done",
                            ![i].status = IF res[1] = "return" THEN 200 ELSE res[2]]
    /\ UNCHANGED <<now, cb, dash, dashes, enable_cache, cache_ttl_seconds, inflight, ret, calls,
                   sent, recorded, storedAt, scn, rlVars, keyVars, enrVars>>

\* the upstream API closes the bet's event: the bet can no longer be cancelled
EventStarts ==
    /\ Cancellable(bet)
    /\ bet' = [bet EXCEPT !.canBeCancelled = FALSE]
    /\ UNCHANGED <<now, cx, cb, dash, dashes, rlVars, keyVars, gwVars, enrVars>>

TickApi(d) ==
    /\ now + d <= MaxTime
    /\ now' = now + d
    /\ UNCHANGED <<rlVars, keyVars, gwVars, apiVars, enrVars>>

\* ---- create_bet (bets.py:85-204) for event 3 by the user with token A
MaxCreates == 2

\* Amounts are in cents (the request schema admits at most two decimals, more
\* than 0 and at most 10000.00); a team name is the sequence of its characters.
Amounts == {50, 100, 500000, 500001}
Teams   == {<<"R", "M">>, <<" ">>, <<"<", "b">>}

\* backend_service.py:251 and 270: the two dispatches of one create_bet request
EventReq == Req("GET", <<"/api", "/events", "/3">>, None, TRUE)
PostReq  == Req("POST", <<"/api", "/bets">>, BearerA, FALSE)

\* dict.get(key, default)
GetOr(d, key, default) == IF key \in DOMAIN d THEN d[key] ELSE default

\* What the upstream API can answer to GET /api/events/3 and to POST /api/bets.
EventOutcomes ==
    {[kind |-> "response", status |-> 200, content |-> <<"json", [canPlaceBets |-> TRUE]>>],
     [kind |-> "response", status |-> 200, content |-> <<"json", [canPlaceBets |-> FALSE]>>],
     [kind |-> "response", status |-> 200, content |-> <<"json", [name |-> "final"]>>],
     [kind |-> "response", status |-> 404, content |-> <<"empty">>]} \cup Failures
PostOutcomes ==
    {[kind |-> "response", status |-> 201, content |-> <<"json", [id |-> 1]>>],
     [kind |-> "response", status |-> 201, content |-> <<"json", [message |-> "ok"]>>],
     [kind |-> "response", status |-> 400, content |-> <<"empty">>]} \cup Failures

\* str.strip() leaves nothing; one of the characters < > & " ' occurs
Blank(team) == \A k \in DOMAIN team : team[k] = " "
HasInvalidChar(team) == \E k \in DOMAIN team : team[k] \in {"<", ">", "&", "\"", "'"}

AppendIf(cond, list, x) == IF cond THEN Append(list, x) ELSE list

\* bets.py:456-491.  event_res is what get_event_by_id gave: <<"return", data>>
\* or <<"raise", ...>>
AmountErrorsNoUpperLimit(amount) ==
    IF amount < 100 THEN <<"Minimum bet amount is $1">> ELSE <<>>
AmountErrors(amount) ==
    IF amount < 100 THEN <<"Minimum bet amount is $1">>
    ELSE IF amount > 500000 THEN <<"Maximum bet amount through BFF is $5000">>
    ELSE <<>>
_validate_bet_request(amount, team, event_res) ==
    LET e1 == AmountErrors(amount)
        e2 == AppendIf(Blank(team), e1, "Selected team cannot be empty")
        e3 == AppendIf(HasInvalidChar(team), e2, "Selected team contains invalid characters")
    IN  IF event_res[1] # "return"
        THEN Append(e3, "Event not found or not available")
        ELSE AppendIf(~GetOr(event_res[2], "canPlaceBets", FALSE), e3,
                      "Event is not available for betting")

\* bets.py:110-145: create_bet after the validation: 400, or the POST goes out
AfterValidation(r, event_res, s) ==
    LET errors == _validate_bet_request(r.amount, r.team, event_res)
    IN  IF errors # <<>>
        THEN [rec   |-> [r EXCEPT !.errors = Some(errors), !.pc = "done", !.status = 400],
              stats |-> s]
        ELSE [rec   |-> [r EXCEPT !.errors = Some(errors), !.pc = "post",
                                  !.posts = @ + 1, !.start_time = now],
              stats |-> CountRequestMade(s)]

NewCreate(amount, team) ==
    [amount |-> amount, team |-> team, pc |-> "event", errors |-> None, posts |-> 0,
     status |-> 0, start_time |-> now]

\* bets.py:85-110 up to the first suspension: the event lookup of the
\* validation is answered from the cache, or goes out
CreateStart(amount, team) ==
    /\ Len(cb) < MaxCreates
    /\ LET found == GwLookup(EventReq)
       IN  IF ~IsNone(found)
           THEN LET a == AfterValidation(NewCreate(amount, team),
                                         <<"return", Get(found)>>, CountCacheHit(stats))
                IN  /\ cb' = Append(cb, a.rec)
                    /\ stats' = a.stats
           ELSE /\ cb' = Append(cb, NewCreate(amount, team))
                /\ stats' = CountRequestMade(stats)
    /\ UNCHANGED <<now, bet, cx, dash, dashes, cache, enable_cache, cache_ttl_seconds, inflight, ret,
                   calls, sent, recorded, storedAt, scn, rlVars, keyVars, enrVars>>

\* the upstream API answers the event lookup (bets.py:482-489, 110-145)
EventAnswer(i, o) ==
    /\ i \in DOMAIN cb /\ cb[i].pc = "event"
    /\ cache' = GwCacheAfter(cache, EventReq, o)
    /\ LET a == AfterValidation(cb[i], ResultOf(o),
                                GwStatsAfter(stats, o, cb[i].start_time))
       IN  /\ cb' = [cb EXCEPT ![i] = a.rec]
           /\ stats' = a.stats
    /\ UNCHANGED <<now, bet, cx, dash, dashes, enable_cache, cache_ttl_seconds, inflight, ret, calls,
                   sent, recorded, storedAt, scn, rlVars, keyVars, enrVars>>

\* the upstream API answers the POST (bets.py:145-204): 201 when the answer
\* has the fields of a bet, 500 when building the BetResponse fails, else the
\* status the gateway raised
CreateStatus(res) ==
    IF res[1] = "raise" THEN res[2]
    ELSE IF "id" \in DOMAIN res[2] THEN 201
    ELSE 500
PostAnswer(i, o) ==
    /\ i \in DOMAIN cb /\ cb[i].pc = "post"
    /\ cache' = GwCacheAfter(cache, PostReq, o)
    /\ stats' = GwStatsAfter(stats, o, cb[i].start_time)
    /\ cb' = [cb EXCEPT ![i].pc = "done", ![i].status = CreateStatus(ResultOf(o))]
    /\ UNCHANGED <<now, bet, cx, dash, dashes, enable_cache, cache_ttl_seconds, inflight, ret, calls,
                   sent, recorded, storedAt, scn, rlVars, keyVars, enrVars>>

\* ======================================================================
\* Enrichment helpers (pure functions)
\* ======================================================================

(***************************************************************************)
(* A record from the upstream API is a function from the field names it    *)
(* has to values; a value is JSON null, a number or a string.  A helper    *)
(* gives <<"ok", value>> or <<"error", exception>>, the exception being    *)
(* the one Python raises at the first operation that cannot be evaluated.  *)
(***************************************************************************)
Null   == <<"null">>
Num(n) == <<"num", n>>
Str(x) == <<"str", x>>
IsNum(v) == v[1] = "num"
Ok(v)  == <<"ok", v>>
Err(e) == <<"error", e>>

\* str.lower() on the status values in use
Lower(x) ==
    IF x = "Won" THEN "won" ELSE IF x = "Lost" THEN "lost"
    ELSE IF x = "Refunded" THEN "refunded" ELSE IF x = "Active" THEN "active" ELSE x

\* bets.py:698-716
_calculate_profit_loss(bet_data) ==
    LET status        == GetOr(bet_data, "status", Str(""))
        amount        == GetOr(bet_data, "amount", Num(0))
        potential_win == GetOr(bet_data, "potentialWin", Num(0))
    IN  IF status[1] # "str" THEN Err("AttributeError")        \* None.lower()
        ELSE IF Lower(status[2]) = "won"
             THEN IF IsNum(potential_win) /\ IsNum(amount)
                  THEN Ok(potential_win[2] - amount[2]) ELSE Err("TypeError")
        ELSE IF Lower(status[2]) = "lost"
             THEN IF IsNum(amount) THEN Ok(0 - amount[2]) ELSE Err("TypeError")
        ELSE IF Lower(status[2]) = "refunded" THEN Ok(0)
        ELSE Ok("None")

\* bets.py:760-779
_calculate_performance_rating(stats_data) ==
    LET win_rate   == GetOr(stats_data, "winRate", Num(0))
        total_bets == GetOr(stats_data, "totalBets", Num(0))
    IN  IF ~IsNum(total_bets) THEN Err("TypeError")
        ELSE IF total_bets[2] < 5 THEN Ok("Beginner")
        ELSE IF ~IsNum(win_rate) THEN Err("TypeError")
        ELSE IF win_rate[2] >= 70 THEN Ok("Excellent")
        ELSE IF win_rate[2] >= 60 THEN Ok("Good")
        ELSE IF win_rate[2] >= 50 THEN Ok("Average")
        ELSE Ok("Needs Improvement")

\* bets.py:781-798
_determine_risk_profile(stats_data) ==
    LET avg_bet    == GetOr(stats_data, "averageBetAmount", Num(0))
        total_bets == GetOr(stats_data, "totalBets", Num(0))
    IN  IF ~IsNum(total_bets) THEN Err("TypeError")
        ELSE IF total_bets[2] < 3 THEN Ok("Unknown")
        ELSE IF ~IsNum(avg_bet) THEN Err("TypeError")
        ELSE IF avg_bet[2] > 500 THEN Ok("High Risk")
        ELSE IF avg_bet[2] > 100 THEN Ok("Medium Risk")
        ELSE Ok("Conservative")

\* bets.py:734-758: the entries of the dict are evaluated in order; the first
\* three computed ones are net_profit, performance_rating and risk_profile
_transform_bet_statistics(stats_data) ==
    LET winnings == GetOr(stats_data, "totalWinnings", Num(0))
        bet_sum  == GetOr(stats_data, "totalAmountBet", Num(0))
        rating   == _calculate_performance_rating(stats_data)
        profile  == _determine_risk_profile(stats_data)
    IN  IF ~(IsNum(winnings) /\ IsNum(bet_sum)) THEN Err("TypeError")
        ELSE IF rating[1] = "error" THEN rating
        ELSE IF profile[1] = "error" THEN profile
        ELSE Ok([net_profit |-> winnings[2] - bet_sum[2],
                 performance_rating |-> rating[2],
                 risk_profile |-> profile[2],
                 win_rate |-> GetOr(stats_data, "winRate", Num(0)),
                 total_bets |-> GetOr(stats_data, "totalBets", Num(0))])

\* bets.py:542-556.  odds are in tenths.
_calculate_risk_level(amount, odds) ==
    IF ~IsNum(amount) THEN Err("TypeError")
    ELSE IF amount[2] > 1000 THEN Ok("high")
    ELSE IF ~IsNum(odds) THEN Err("TypeError")
    ELSE IF odds[2] > 30 THEN Ok("high")
    ELSE IF odds[2] > 20 THEN Ok("medium")
    ELSE Ok("low")

\* events.py:236-273.  The score is in hundredths; eventDate is given as the
\* number of whole days from now to the event.
Min(a, b) == IF a < b THEN a ELSE b
popular_teams == {"Real Madrid", "Barcelona", "Manchester United", "Liverpool"}
_calculate_popularity_score(event_data) ==
    LET bet_count    == GetOr(event_data, "totalBetsCount", Num(0))
        total_amount == GetOr(event_data, "totalBetsAmount", Num(0))
        team_a       == GetOr(event_data, "teamA", Str(""))
        team_b       == GetOr(event_data, "teamB", Str(""))
    IN  IF ~IsNum(bet_count) THEN Err("TypeError")
        ELSE IF ~IsNum(total_amount) THEN Err("TypeError")
        ELSE IF "eventDate" \notin DOMAIN event_data THEN Err("KeyError")
        ELSE IF event_data["eventDate"] = Null THEN Err("AttributeError")
        ELSE LET days_until == event_data["eventDate"][2]
                 by_count   == Min(bet_count[2] * 10, 1000)
                 by_amount  == Min(total_amount[2] \div 10, 1500)
                 by_date    == IF days_until <= 1 THEN 2000
                               ELSE IF days_until <= 7 THEN 1000 ELSE 0
                 by_team_a  == IF team_a[1] = "str" /\ team_a[2] \in popular_teams
                               THEN 500 ELSE 0
                 by_team_b  == IF team_b[1] = "str" /\ team_b[2] \in popular_teams
                               THEN 500 ELSE 0
             IN  Ok(by_count + by_amount + by_date + by_team_a + by_team_b)

\* ---- inputs: every record over the fields a helper reads, each field being
\* absent, null or one of a few values
Absent == <<"absent">>
RecordOf(fields, pick) ==
    [f \in {g \in fields : pick[g] # Absent} |-> pick[f]]
Records(fields, values) ==
    {RecordOf(fields, pick) : pick \in [fields -> values \cup {Absent, Null}]}
BetRecords ==
    {RecordOf({"status", "amount", "potentialWin"}, pick) :
        pick \in [status : {Absent, Null, Str("Won"), Str("Lost"), Str("Active")},
                  amount : {Absent, Null, Num(100)},
                  potentialWin : {Absent, Null, Num(250)}]}
StatsRecords ==
    Records({"winRate", "totalBets", "averageBetAmount", "totalWinnings", "totalAmountBet"},
            {Num(65)})
EventRecords ==
    {RecordOf({"eventDate", "totalBetsCount", "totalBetsAmount", "teamA"}, pick) :
        pick \in [eventDate : {Absent, Null, Num(0), Num(30)},
                  totalBetsCount : {Absent, Null, Num(50)},
                  totalBetsAmount : {Absent, Num(2000)},
                  teamA : {Absent, Null, Str("Real Madrid")}]}
RiskArgs == {Null, Num(100), Num(2000)} \X {Null, Num(15), Num(25), Num(35)}
EnrichInputs ==
    {[helper |-> "_calculate_profit_loss", arg |-> r] : r \in BetRecords}
    \cup {[helper |-> "_calculate_performance_rating", arg |-> r] : r \in StatsRecords}
    \cup {[helper |-> "_transform_bet_statistics", arg |-> r] : r \in StatsRecords}
    \cup {[helper |-> "_calculate_popularity_score", arg |-> r] : r \in EventRecords}
    \cup {[helper |-> "_calculate_risk_level", arg |-> a] : a \in RiskArgs}

Apply(in) ==
    IF in.helper = "_calculate_profit_loss" THEN _calculate_profit_loss(in.arg)
    ELSE IF in.helper = "_calculate_performance_rating"
         THEN _calculate_performance_rating(in.arg)
    ELSE IF in.helper = "_transform_bet_statistics" THEN _transform_bet_statistics(in.arg)
    ELSE IF in.helper = "_calculate_popularity_score"
         THEN _calculate_popularity_score(in.arg)
    ELSE _calculate_risk_level(in.arg[1], in.arg[2])

InitEnrVars ==
    /\ enrich_in = [helper |-> "_calculate_risk_level", arg |-> <<Num(100), Num(15)>>]
    /\ enrich_out = <<>>

Enrich ==
    /\ enrich_out = <<>>
    /\ enrich_out' = Apply(enrich_in)
    /\ UNCHANGED <<now, enrich_in, rlVars, keyVars, gwVars, apiVars>>

\* ======================================================================
\* Specifications
\* ======================================================================

\* ---- the gateway
Init ==
    /\ now = 0
    /\ enable_cache \in BOOLEAN
    /\ cache_ttl_seconds = 300
    /\ InitGwVars
    /\ max_requests = 1
    /\ InitRLVars
    /\ InitKeyVars
    /\ InitApiVars
    /\ InitEnrVars

Next ==
    \/ \E req \in Requests : DispatchStart(req)
    \/ \E d \in inflight : \E o \in Outcomes : DispatchComplete(d, o)
    \/ ClearCache
    \/ \E d \in GwSteps : Tick(d)

Spec == Init /\ [][Next]_vars

\* ---- the rate limiter
InitRL ==
    /\ now = 0
    /\ max_requests \in 0..MaxRate
    /\ InitRLVars
    /\ enable_cache = TRUE
    /\ cache_ttl_seconds = 300
    /\ InitGwVars
    /\ InitKeyVars
    /\ InitApiVars
    /\ InitEnrVars

NextRL ==
    \/ \E c \in Clients : CheckRateLimit(c)
    \/ \E d \in RLSteps : TickRL(d)

SpecRL == InitRL /\ [][NextRL]_vars

\* ---- the rate-limiting middleware in front of the route handlers
NextMW ==
    \/ \E c \in Clients : CheckRateLimit(c)
    \/ RouteHandler
    \/ \E d \in RLSteps : TickRL(d)

SpecMW == InitRL /\ [][NextMW]_vars

\* ---- the cache-key function
InitKey ==
    /\ now = 0
    /\ key_in \in KeyInputs \X KeyInputs
    /\ key_out = <<>>
    /\ max_requests = 1
    /\ InitRLVars
    /\ enable_cache = TRUE
    /\ cache_ttl_seconds = 300
    /\ InitGwVars
    /\ InitApiVars
    /\ InitEnrVars

NextKey == GenerateKeys

SpecKey == InitKey /\ [][NextKey]_vars

\* ---- cancel_bet requests of one user for one bet
InitCancel ==
    /\ now = 0
    /\ enable_cache = TRUE
    /\ cache_ttl_seconds = 300
    /\ InitGwVars
    /\ max_requests = 1
    /\ InitRLVars
    /\ InitKeyVars
    /\ InitApiVars
    /\ InitEnrVars

NextCancel ==
    \/ CancelStart
    \/ \E i \in DOMAIN cx : \E o \in VerifyOutcomes : VerifyAnswer(i, o)
    \/ \E i \in DOMAIN cx : \E o \in DeleteOutcomes : DeleteAnswer(i, o)
    \/ EventStarts
    \/ \E d \in GwSteps : TickApi(d)

SpecCancel == InitCancel /\ [][NextCancel]_vars

\* ---- create_bet requests of one user for one event
NextCreate ==
    \/ \E amount \in Amounts : \E team \in Teams : CreateStart(amount, team)
    \/ \E i \in DOMAIN cb : \E o \in EventOutcomes : EventAnswer(i, o)
    \/ \E i \in DOMAIN cb : \E o \in PostOutcomes : PostAnswer(i, o)
    \/ \E d \in GwSteps : TickApi(d)

SpecCreate == InitCancel /\ [][NextCreate]_vars

\* ---- get_betting_dashboard requests of one user, one after the other
NextDash ==
    \/ DashStart
    \/ \E src \in SourceSet : \E o \in SourceOutcomes(src) : SourceAnswer(src, o)
    \/ \E d \in DashSteps : TickApi(d)

SpecDash == InitCancel /\ [][NextDash]_vars

\* ---- the enrichment helpers
InitEnrich ==
    /\ now = 0
    /\ enable_cache = TRUE
    /\ cache_ttl_seconds = 300
    /\ InitGwVars
    /\ max_requests = 1
    /\ InitRLVars
    /\ InitKeyVars
    /\ InitApiVars
    /\ enrich_in \in EnrichInputs
    /\ enrich_out = <<>>

NextEnrich == Enrich

SpecEnrich == InitEnrich /\ [][NextEnrich]_vars

\* ======================================================================
\* Properties
\* ======================================================================

\* ---- vocabulary of the properties
\* the stamps of client c's allowed calls that lie in the window (t - window_size, t]
AllowedInWindow(c, t) ==
    {i \in DOMAIN allowed_log[c] :
        t - window_size < allowed_log[c][i] /\ allowed_log[c][i] <= t}

\* a dispatch the gateway may answer from, or enter into, the cache
OnDenylist(endpoint) ==
    \/ IsInfix(<<"/api", "/bets", "/my-bets">>, endpoint)
    \/ IsInfix(<<"/api", "/auth", "/profile">>, endpoint)
    \/ IsInfix(<<"/health">>, endpoint)
Cacheable(r) ==
    r.method = "GET" /\ ~OnDenylist(r.endpoint) /\ r.use_cache /\ enable_cache
ReqKey(r) == _generate_cache_key(r.method, r.endpoint, r.params, r.headers)

\* a step that begins a dispatch, and the request it begins
IsStart == calls' = calls + 1
StartedReqs ==
    IF ret'.phase = "hit" THEN {ret'.req} ELSE {d.req : d \in inflight' \ inflight}
\* the dispatches a step completes
Completed == inflight \ inflight'

\* the Authorization item of a header mapping, and the rest of the mapping
AuthItems(h)  == IF IsNone(h) THEN {} ELSE {it \in Get(h) : it[1] = "Authorization"}
OtherItems(h) == IF IsNone(h) THEN {} ELSE {it \in Get(h) : it[1] # "Authorization"}
DifferOnlyInAuth(a, b) ==
    /\ a.method = b.method /\ a.endpoint = b.endpoint /\ a.params = b.params
    /\ OtherItems(a.headers) = OtherItems(b.headers)
    /\ AuthItems(a.headers) # AuthItems(b.headers)

\* C1: for every client and every time t, at most max_requests of the client's
\* calls that were allowed carry a timestamp in the window (t - window_size, t].
C1_SlidingWindowBound ==
    \A c \in Clients : \A t \in 0..MaxTimeRL :
        Cardinality(AllowedInWindow(c, t)) <= max_requests

\* a client with a limit of 2 was denied, and later allowed a third time
C1_Witness ==
    /\ max_requests = 2
    /\ \E c \in Clients :
        /\ Len(allowed_log[c]) >= 3
        /\ Cardinality(AllowedInWindow(c, now)) = 2
        /\ rl_ret = [client |-> c, allow |-> FALSE, time |-> now]

\* C2: a dispatch is answered from the cache, or writes to it, only if it is a GET
\* to a path off the denylist with the hint on and caching enabled; every other
\* dispatch issues the outbound call and leaves the cache as it was.
C2_OnlyCacheableTouchesCache ==
    [][ /\ IsStart =>
            \A r \in StartedReqs :
                ~Cacheable(r) =>
                    /\ ret'.phase = "sent"
                    /\ sent' = sent + 1
                    /\ cache' = cache
        /\ \A d \in Completed : ~Cacheable(d.req) => cache' = cache
      ]_vars

\* with caching enabled, three dispatches were made, the last returned a 200
\* body, and nothing was ever stored
C2_Witness ==
    /\ enable_cache
    /\ calls = 3 /\ sent = 3 /\ inflight = {}
    /\ ret.phase = "return" /\ ret.upstream = 200
    /\ \A k \in GwKeys : storedAt[k] = -1

\* C3: equal inputs give equal keys, and inputs that differ only in the
\* Authorization header (another value, or present against absent) give
\* different keys.
C3_KeyDeterminismAndAuthSeparation ==
    key_out # <<>> =>
        /\ (key_in[1] = key_in[2] => key_out[1] = key_out[2])
        /\ (DifferOnlyInAuth(key_in[1], key_in[2]) => key_out[1] # key_out[2])

\* the keys of two inputs were computed, one without headers and one with a
\* credential
C3_Witness ==
    /\ key_out # <<>>
    /\ DifferOnlyInAuth(key_in[1], key_in[2])
    /\ key_in[1].headers = None
    /\ key_in[2].headers = BearerA
    /\ key_out[1] # key_out[2]

\* C4: a cacheable dispatch that finds an entry under its key that has not
\* expired returns the stored body, adds exactly 1 to cache_hits and issues no
\* outbound call.
C4_HitReturnsStoredBody ==
    [][ IsStart =>
          \A r \in StartedReqs :
              (/\ Cacheable(r)
               /\ ReqKey(r) \in DOMAIN cache
               /\ now < storedAt[ReqKey(r)] + cache_ttl_seconds)
              => /\ ret'.phase = "hit"
                 /\ ret'.value = cache[ReqKey(r)].value
                 /\ stats'.cache_hits = stats.cache_hits + 1
                 /\ sent' = sent
                 /\ inflight' = inflight
      ]_vars

\* a dispatch was answered from the cache after exactly one outbound call
C4_Witness ==
    /\ ret.phase = "hit" /\ ret.value = "b2"
    /\ stats.cache_hits = 1 /\ sent = 1 /\ calls = 2

\* C5 as stated: a cacheable dispatch whose upstream response has any 2xx status
\* and was returned to the caller has stored the body under its key.
C5_Original ==
    [][ \A d \in Completed :
          (Cacheable(d.req) /\ ret'.upstream \in 200..299 /\ ret'.phase = "return")
          => /\ ReqKey(d.req) \in DOMAIN cache'
             /\ cache'[ReqKey(d.req)].value = ret'.value
             /\ storedAt'[ReqKey(d.req)] = now
      ]_vars

\* C5 amended: a cacheable dispatch whose upstream response has status 200 and a
\* decodable body stores that body under its key with a lifetime of the TTL; an
\* identical dispatch begun before the TTL elapses, while the entry is still in
\* the cache, is answered from it.
C5_Status200IsStored ==
    [][ /\ \A d \in Completed :
              (Cacheable(d.req) /\ ret'.upstream = 200 /\ ret'.phase = "return")
              => /\ ReqKey(d.req) \in DOMAIN cache'
                 /\ cache'[ReqKey(d.req)] =
                        [value |-> ret'.value, expires |-> now + cache_ttl_seconds]
                 /\ storedAt'[ReqKey(d.req)] = now
        /\ IsStart =>
              \A r \in StartedReqs :
                  (/\ Cacheable(r)
                   /\ ReqKey(r) \in DOMAIN cache
                   /\ now < storedAt[ReqKey(r)] + cache_ttl_seconds)
                  => ret'.phase = "hit"
      ]_vars

\* a 200 response has just been stored
C5_Witness ==
    /\ ret.phase = "return" /\ ret.upstream = 200
    /\ \E k \in DOMAIN cache :
          cache[k] = [value |-> ret.value, expires |-> now + cache_ttl_seconds]

C7_Original == stats.requests_made = calls

\* C7 amended: requests_made equals the number of dispatches that issued an
\* outbound call (each of them counted once, whatever its end); a dispatch
\* answered from the cache is counted in cache_hits and not in requests_made.
C7_RequestsMadeCountsOutboundCalls ==
    /\ stats.requests_made = sent
    /\ stats.requests_made + stats.cache_hits = calls

\* a hit, a failed call and a successful call have all been counted
C7_Witness ==
    /\ calls = 3 /\ inflight = {}
    /\ stats.cache_hits = 1 /\ stats.errors = 1 /\ stats.requests_made = 2

\* C8: k >= 2 identical cacheable dispatches on a fresh gateway, the first
\* answered 200 and the others begun before its entry's TTL elapses: each returns
\* the first one's body, requests_made = 1 and cache_hits = k - 1.
C8_RepeatedDispatchCounters ==
    (scn.ok /\ calls >= 2 /\ inflight = {}) =>
        /\ ret.phase \in {"hit", "return"}
        /\ ret.value = scn.body
        /\ stats.requests_made = 1
        /\ stats.cache_hits = calls - 1

\* the run with k = 3, the last dispatch begun after the clock moved
C8_Witness ==
    /\ scn.ok /\ calls = 3 /\ inflight = {}
    /\ scn.T >= 0 /\ now > scn.T
    /\ stats.cache_hits = 2

\* C9: cache_hits never exceeds requests_made, so the cache_hit_rate of get_stats
\* lies between 0 and 100.
C9_HitRateAtMost100 ==
    /\ stats.cache_hits <= stats.requests_made
    /\ get_stats.cache_hit_rate[1] >= 0
    /\ get_stats.cache_hit_rate[1] <= 100 * get_stats.cache_hit_rate[2]

\* C10: a dispatch whose upstream response has a non-2xx status s raises a
\* condition that carries s.
C10_ErrorStatusPassedThrough ==
    (ret.phase = "raise" /\ ret.upstream # 0 /\ ret.upstream \notin 200..299) =>
        ret.status = ret.upstream

\* C11: a dispatch whose outbound call times out raises status 504, one whose
\* outbound call cannot establish a connection raises status 503, and neither
\* returns a value to its caller.
C11_TimeoutAndConnectFailure ==
    /\ ret.cause = "timeout" =>
          ret.phase = "raise" /\ ret.status = 504 /\ ret.value = ""
    /\ ret.cause = "connect_error" =>
          ret.phase = "raise" /\ ret.status = 503 /\ ret.value = ""
\* a dispatch has ended on a timeout after another ended on a failed connection
C11_Witness ==
    /\ ret.cause = "timeout"
    /\ stats.errors = 2
    /\ stats.requests_made = 2
    /\ stats.average_response_time = <<0, 1>>
    /\ inflight = {}

C13_AverageOnlyOnNetworkCalls ==
    [][ LET old == stats.average_response_time
            new == stats'.average_response_time
            n   == stats'.requests_made
        IN  /\ (IsStart /\ ret'.phase = "hit") => new = old
            /\ new # old =>
                  /\ Cardinality(Completed) = 1
                  /\ ret'.cause = "response"
            /\ (Completed # {} /\ ret'.cause = "response") =>
                  \A d \in Completed :
                      /\ n >= 1
                      /\ n = stats.requests_made
                      \* new = (old * (n - 1) + (now - start_time)) / n
                      /\ new[1] * (old[2] * n) =
                            (old[1] * (n - 1) + (now - d.start_time) * old[2]) * new[2]
      ]_vars
\* two network calls took 150 and 300 seconds, then a cache hit: average 225
C13_Witness ==
    /\ ret.phase = "hit"
    /\ stats.requests_made = 2
    /\ stats.average_response_time = <<225, 1>>

\* C14: clear_cache, called in any state, leaves the cache empty (cache_size is
\* 0 and the next eligible dispatch is a miss) and leaves requests_made,
\* cache_hits, errors and average_response_time unchanged.
IsClear == calls' = calls /\ inflight' = inflight /\ now' = now
C14_ClearCacheKeepsCounters ==
    [][ /\ IsClear =>
              /\ cache' = <<>>
              /\ get_stats'.cache_size = 0
              /\ stats'.requests_made = stats.requests_made
              /\ stats'.cache_hits = stats.cache_hits
              /\ stats'.errors = stats.errors
              /\ stats'.average_response_time = stats.average_response_time
        /\ (IsStart /\ cache = <<>>) => ret'.phase = "sent"
      ]_vars
\* after a hit the cache was cleared, and the same dispatch then went out again
C14_Witness ==
    /\ cache = <<>>
    /\ stats.cache_hits = 1
    /\ stats.requests_made = 2
    /\ ret.phase = "sent"
    /\ \E k \in GwKeys : storedAt[k] >= 0
    /\ \E d \in inflight : Cacheable(d.req)

\* ---- vocabulary of the rate-limiter properties
\* a step that is one _check_rate_limit call, and the list a client has (a
\* client without an entry has no timestamps)
IsCheck == rl_calls' = rl_calls + 1
ListOf(store, c) == IF c \in DOMAIN store THEN store[c].requests ELSE <<>>
FreshStamps(stamps, t) == SelectSeq(stamps, LAMBDA x : t - x < window_size)

\* C15: a denied _check_rate_limit(c) appends no timestamp to c's list; after
\* any call the list is exactly the allowed timestamps of c that are still in
\* the window, however many denied attempts c made in between.
C15_DeniedCallRecordsNothing ==
    [][ IsCheck =>
          LET c == rl_ret'.client
          IN  /\ ~rl_ret'.allow =>
                    /\ allowed_log' = allowed_log
                    /\ ListOf(rate_limit_store', c) =
                          FreshStamps(ListOf(rate_limit_store, c), now)
                    /\ Len(ListOf(rate_limit_store', c)) <=
                          Len(ListOf(rate_limit_store, c))
              /\ ListOf(rate_limit_store', c) = FreshStamps(allowed_log'[c], now)
      ]_vars
\* a client was allowed once and then denied twice: its list holds one stamp
C15_Witness ==
    \E c \in Clients :
        /\ max_requests = 1
        /\ rl_calls = 3
        /\ rl_ret = [client |-> c, allow |-> FALSE, time |-> 40]
        /\ rate_limit_store = (c :> [requests |-> <<0>>])

\* C16: immediately after every _check_rate_limit(c) call, allowed or denied,
\* every timestamp t kept in c's list satisfies now - t < window_size.
C16_ListHoldsOnlyFreshStamps ==
    rl_ret.client \in DOMAIN rate_limit_store =>
        \A i \in DOMAIN rate_limit_store[rl_ret.client].requests :
            rl_ret.time - rate_limit_store[rl_ret.client].requests[i] < window_size
\* the call at 60 dropped the stamp 0 and kept the stamp 20
C16_Witness ==
    \E c \in Clients :
        /\ max_requests = 2
        /\ allowed_log[c] = <<0, 20, 60>>
        /\ rl_ret = [client |-> c, allow |-> TRUE, time |-> 60]
        /\ rate_limit_store[c].requests = <<20, 60>>

\* C17: with max_requests >= 1, a call by c is allowed exactly when fewer than
\* max_requests allowed calls of c lie less than window_size seconds back: the
\* first max_requests calls are allowed, further calls in the window are
\* denied, and once window_size seconds have passed since the oldest counted
\* request the next call is allowed.
C17_AllowedDeniedAllowedAgain ==
    [][ (IsCheck /\ max_requests >= 1) =>
          LET c      == rl_ret'.client
              list   == ListOf(rate_limit_store, c)
              recent == {i \in DOMAIN allowed_log[c] :
                            now - allowed_log[c][i] < window_size}
          IN  /\ rl_ret'.allow = (Cardinality(recent) < max_requests)
              /\ Len(allowed_log[c]) < max_requests => rl_ret'.allow
              /\ (list # <<>> /\ now - list[1] >= window_size) => rl_ret'.allow
      ]_vars
\* allowed at 0, denied at 20 and at 40, allowed again at 60
C17_Witness ==
    \E c \in Clients :
        /\ max_requests = 1
        /\ rl_calls = 4
        /\ allowed_log[c] = <<0, 60>>
        /\ rl_ret = [client |-> c, allow |-> TRUE, time |-> 60]
        /\ DOMAIN rate_limit_store = {c}

\* C18: _check_rate_limit(a) never changes the list of another client b, and a
\* client with no allowed call of its own in the window is allowed whatever
\* the other clients did.
C18_ClientsAreIndependent ==
    [][ IsCheck =>
          LET a == rl_ret'.client
          IN  /\ \A b \in Clients \ {a} :
                    /\ (b \in DOMAIN rate_limit_store') = (b \in DOMAIN rate_limit_store)
                    /\ ListOf(rate_limit_store', b) = ListOf(rate_limit_store, b)
                    /\ allowed_log'[b] = allowed_log[b]
              /\ (max_requests >= 1 /\ AllowedInWindow(a, now) = {}) => rl_ret'.allow
      ]_vars
\* a was allowed and then denied; b, calling at the same instant, is allowed
C18_Witness ==
    \E a \in Clients : \E b \in Clients \ {a} :
        /\ max_requests = 1
        /\ rl_calls = 3
        /\ allowed_log[a] = <<0>>
        /\ rl_ret = [client |-> b, allow |-> TRUE, time |-> 0]
        /\ rate_limit_store[a].requests = <<0>>

\* C19: the limiter check of a request runs before any route handler; when it
\* denies, the middleware does not call the downstream handler (no route
\* handler runs, no gateway dispatch is made) and raises status 429.
RECURSIVE SumLen(_, _)
SumLen(f, S) ==
    IF S = {} THEN 0
    ELSE LET c == CHOOSE x \in S : TRUE IN Len(f[c]) + SumLen(f, S \ {c})
C19_DeniedRequestStopsAtMiddleware ==
    [][ /\ IsCheck =>
              /\ rl_ret'.allow =>
                    /\ call_next_calls' = call_next_calls + 1
                    /\ mw_ret' = [call_next |-> TRUE, raised |-> 0]
              /\ ~rl_ret'.allow =>
                    /\ mw_ret' = [call_next |-> FALSE, raised |-> 429]
                    /\ call_next_calls' = call_next_calls
                    /\ handler_runs' = handler_runs
                    /\ calls' = calls /\ sent' = sent /\ inflight' = inflight
        /\ handler_runs' # handler_runs =>
              /\ ~IsCheck
              /\ handler_runs' = handler_runs + 1
              /\ handler_runs' <= call_next_calls
        /\ call_next_calls' = SumLen(allowed_log', Clients)
      ]_vars
\* two requests were allowed and handled, a third was denied with 429
C19_Witness ==
    /\ rl_calls = 3
    /\ ~rl_ret.allow
    /\ mw_ret.raised = 429
    /\ call_next_calls = 2
    /\ handler_runs = 2

\* C20: the cache lookup and the following cache store of one dispatch run
\* with no step of another dispatch in between, so two identical eligible
\* dispatches made concurrently on a cold cache never both issue an outbound
\* call: no two dispatches waiting for the upstream API looked up the same key.
C20_LookupAndStoreNotInterleaved ==
    \A d1 \in inflight : \A d2 \in inflight \ {d1} :
        IsNone(d1.cache_key) \/ d1.cache_key # d2.cache_key

\* C27: stats.errors counts the dispatches that ended by raising: a dispatch
\* that fails (timeout, connection failure, error status, undecodable body,
\* other exception) adds exactly 1, a successful dispatch and a cache hit add
\* nothing, and nothing else changes it.
C27_ErrorsCountsRaisedDispatches ==
    [][ /\ Completed # {} =>
              stats'.errors = stats.errors + (IF ret'.phase = "raise" THEN 1 ELSE 0)
        /\ Completed = {} => stats'.errors = stats.errors
        /\ stats'.errors <= sent' - Cardinality(inflight')
      ]_vars
\* after a stored answer and a hit, a 200 answer with an undecodable body raised
C27_Witness ==
    /\ ret.phase = "raise" /\ ret.cause = "response" /\ ret.upstream = 200
    /\ stats.errors = 1
    /\ stats.cache_hits = 1
    /\ stats.requests_made = 2

\* C28: a dispatch that ends by raising leaves the cache as it was: no entry is
\* added, replaced or removed on an error path.
C28_RaisingDispatchKeepsCache ==
    [][ (Completed # {} /\ ret'.phase = "raise") => cache' = cache ]_vars
\* a cacheable dispatch got a 200 answer with an undecodable body while an
\* earlier answer was in the cache
C28_Witness ==
    /\ ret.phase = "raise" /\ ret.cause = "response" /\ ret.upstream = 200
    /\ cache # <<>>
    /\ stats.requests_made = 3
    /\ stats.errors = 1

\* C29: average_response_time is the arithmetic mean of the response times
\* that were measured, also when some dispatches timed out, failed to connect
\* or were in flight together.
C29_AverageIsMeanOfMeasuredTimes ==
    LET avg == stats.average_response_time
    IN  IF recorded.n = 0
        THEN avg = <<0, 1>>
        ELSE avg[1] * recorded.n = recorded.sum * avg[2]

\* C26: cancel_bet issues the DELETE only if the verification step of the same
\* request returned a bet that is Active with canBeCancelled true; in every
\* other case (other status, not cancellable, verification failed) the
\* response is 400 and no DELETE is issued.
C26_DeleteOnlyAfterPositiveVerification ==
    \A i \in DOMAIN cx :
        /\ cx[i].deleted =>
              /\ cx[i].verified
              /\ cx[i].seen = Some([status |-> "Active", canBeCancelled |-> TRUE])
        /\ (cx[i].verified /\
              cx[i].seen # Some([status |-> "Active", canBeCancelled |-> TRUE])) =>
              /\ ~cx[i].deleted
              /\ cx[i].pc = "done"
              /\ cx[i].status = 400
\* one request cancelled the bet; a later one saw it cancelled and got 400, a
\* third could not verify and got 400
C26_Witness ==
    /\ Len(cx) = 3
    /\ cx[1].deleted /\ cx[1].status = 200
    /\ cx[2].seen = Some(Cancelled) /\ cx[2].status = 400 /\ ~cx[2].deleted
    /\ cx[3].verified /\ cx[3].seen = None /\ cx[3].status = 400 /\ ~cx[3].deleted

\* C30: the verification step of every cancel_bet request reads the bet's
\* current upstream state: its GET is never answered from the gateway cache,
\* and a bet already cancelled by an earlier request is never reported as
\* Active and cancellable to a later one.
C30_VerificationSeesUpstreamState ==
    \A i \in DOMAIN cx : ~cx[i].cached /\ ~cx[i].stale

\* C25: create_bet issues POST /api/bets at most once per request and only
\* after _validate_bet_request returned no errors; when the validation reports
\* an error (such as an amount above 5000) the response is 400 and no POST is
\* issued.
C25_PostOnlyAfterCleanValidation ==
    \A i \in DOMAIN cb :
        /\ cb[i].posts <= 1
        /\ cb[i].posts = 1 => cb[i].errors = Some(<<>>)
        /\ (~IsNone(cb[i].errors) /\ cb[i].errors # Some(<<>>)) =>
              cb[i].posts = 0 /\ cb[i].pc = "done" /\ cb[i].status = 400
        /\ (~IsNone(cb[i].errors) /\ cb[i].amount > 500000) =>
              cb[i].posts = 0 /\ cb[i].status = 400
\* a bet of 5000.01 was refused with 400 by the limit alone, and a bet of
\* 5000.00 on the same event was posted once and created
C25_Witness ==
    /\ Len(cb) = 2
    /\ cb[1].amount = 500001 /\ cb[1].status = 400 /\ cb[1].posts = 0
    /\ cb[1].errors = Some(<<"Maximum bet amount through BFF is $5000">>)
    /\ cb[2].amount = 500000 /\ cb[2].status = 201 /\ cb[2].posts = 1

\* ---- vocabulary of the dashboard properties
\* the slice of the composed dashboard that belongs to a source, the value it
\* has when the source's own data is used, and its default
SliceOf(data, src) ==
    IF src = "profile" THEN data.user_profile
    ELSE IF src = "recent_bets" THEN data.recent_bets
    ELSE IF src = "bet_statistics" THEN data.statistics
    ELSE data.available_events
OwnSlice(src) ==
    IF src = "bet_statistics" THEN <<"transformed", <<"data", src>>>> ELSE <<"data", src>>
DefaultSlice(src) == IF src \in {"profile", "bet_statistics"} THEN "{}" ELSE "[]"
SourceFailed(src) == dash.results[src].res[1] = "raise"
AuthFailed(src) == dash.results[src].kind = "response" /\ dash.results[src].upstream = 401

C22_AuthFailureSurfacesAs401 ==
    (dash.pc = "done" /\ \E src \in SourceSet : AuthFailed(src)) => dash.status = 401

\* C23: for every order in which the four dashboard calls complete, each
\* slice of the composed dashboard is built from the result of its own call.
C23_SlicesFollowTheirOwnCall ==
    (dash.pc = "done" /\ dash.status = 200) =>
        \A src \in SourceSet :
            ~SourceFailed(src) => SliceOf(dash.data, src) = OwnSlice(src)
\* the four answers arrived in the reverse of the order of the calls
C23_Witness ==
    /\ dash.pc = "done" /\ dash.status = 200
    /\ dash.order = <<"available_events", "bet_statistics", "recent_bets", "profile">>
    /\ \A src \in SourceSet : ~SourceFailed(src) /\ SliceOf(dash.data, src) = OwnSlice(src)

\* C24: the enrichment helpers raise no error for any input record, records
\* with missing fields or null field values included.
C24_HelpersAreTotal ==
    enrich_out # <<>> => enrich_out[1] = "ok"

====
